---- MODULE Spec2Model ----
(***************************************************************************)
(* Invoice ledger write path of app.py: the sequential invoice-number      *)
(* allocator, the create_invoice transaction (client find/update/create,   *)
(* catalog item upsert, frozen invoice lines, one commit) and the bulk     *)
(* importer, run by concurrent request workers over one SQLite database.   *)
(*                                                                         *)
(* Storage model.  `db` is the committed database.  A worker's ORM session *)
(* keeps added objects in `pending` until its first flush; the first flush *)
(* opens the write transaction (SQLite admits one writer at a time: `lock`)*)
(* and from then on the worker works on `work`, its private image of the   *)
(* database, which becomes `db` on commit and is dropped on rollback.      *)
(* SELECTs of a worker that has not flushed yet read `db`.  A worker that  *)
(* needs the write lock while another holds it waits (busy timeouts are    *)
(* not modelled).                                                          *)
(*                                                                         *)
(* Text that the program trims or case-folds (client names, item           *)
(* descriptions) is a sequence of one-character strings; other text is an  *)
(* opaque string.  A dict (JSON object, spreadsheet row) is a record whose *)
(* DOMAIN is the set of keys present.                                      *)
(***************************************************************************)
EXTENDS Integers, Sequences, FiniteSets, TLC

VARIABLES
    db,        \* committed tables: clients, items, invoices, invoice_items
    today,     \* datetime.now(), as [yy, mm]
    lock,      \* worker holding the database write lock, or NoWorker
    pc,        \* per worker: position inside the request handler
    req,       \* per worker: the request being handled (JSON payload / upload)
    pending,   \* per worker: objects added to the session, not yet flushed
    work,      \* per worker: database image inside its open write transaction
    cur,       \* per worker: handler locals (invoice number, line index, key set)
    resp,      \* per worker: the last response returned
    budget,    \* number of requests the workers will still receive
    last       \* the request answered most recently, with its response

vars == <<db, today, lock, pc, req, pending, work, cur, resp, budget, last>>

(***************************************************************************)
(* Bounds of the model.                                                    *)
(***************************************************************************)
MaxRequests == 2      \* requests received in one behaviour, concurrent workers
MaxSeqRequests == 3   \* requests received in one behaviour, one worker
MaxRollRequests == 2  \* the same, starting from the seeded invoice history
MaxTicks == 1      \* month changes of the clock in one behaviour

Procs == {"w1", "w2"}
NoWorker == "none"

(***************************************************************************)
(* Python / SQL value helpers.                                             *)
(***************************************************************************)
\* Python None / SQL NULL in a text column.
NULL == "<NULL>"

\* dict.get(key, default)
Get(d, k, default) == IF k \in DOMAIN d THEN d[k] ELSE default

UpperCase == <<"A", "B", "C", "D", "E", "F", "G", "H", "I", "J", "K", "L", "M",
               "N", "O", "P", "Q", "R", "S", "T", "U", "V", "W", "X", "Y", "Z">>
LowerCase == <<"a", "b", "c", "d", "e", "f", "g", "h", "i", "j", "k", "l", "m",
               "n", "o", "p", "q", "r", "s", "t", "u", "v", "w", "x", "y", "z">>
Whitespace == {" "}

LowerChar(c) ==
    IF \E i \in 1..26 : UpperCase[i] = c
    THEN LowerCase[CHOOSE i \in 1..26 : UpperCase[i] = c]
    ELSE c

\* func.lower(text) in SQL, str.lower() in Python (ASCII text)
Lower(s) == [i \in 1..Len(s) |-> LowerChar(s[i])]

\* Variant: the text is used as received, not trimmed.
NoStrip(s) == s

\* str.strip()
Strip(s) ==
    LET keep == {i \in 1..Len(s) : s[i] \notin Whitespace}
    IN  IF keep = {} THEN <<>>
        ELSE LET lo == CHOOSE i \in keep : \A j \in keep : i <= j
                 hi == CHOOSE i \in keep : \A j \in keep : j <= i
             IN  SubSeq(s, lo, hi)

(***************************************************************************)
(* Invoice numbers.  A number is [prefix, digits]: the text                *)
(* "<yy><month code>-" and the characters after it, as decimal digits.     *)
(***************************************************************************)
month_codes ==
    <<"JA", "FE", "MR", "AP", "MY", "JN", "JL", "AU", "SE", "OC", "NO", "DE">>

\* f"{today.strftime('%y')}{month_code}-"
Prefix(now) == <<now.yy, month_codes[now.mm]>>

RECURSIVE ToDigits(_)
\* str(n) for n >= 0
ToDigits(n) == IF n < 10 THEN <<n>> ELSE Append(ToDigits(n \div 10), n % 10)

\* f"{n:03d}": zero-padded to at least three characters
Format03d(n) ==
    LET ds == ToDigits(n)
    IN  IF Len(ds) >= 3 THEN ds
        ELSE [i \in 1..(3 - Len(ds)) |-> 0] \o ds

RECURSIVE ParseInt(_)
\* int(text) of a digit string
ParseInt(ds) ==
    IF ds = <<>> THEN 0
    ELSE 10 * ParseInt(SubSeq(ds, 1, Len(ds) - 1)) + ds[Len(ds)]

\* Text order of two digit strings (the ORDER BY of a text column).
TextLess(a, b) ==
    \E k \in 1..(Len(b)) :
        /\ \A j \in 1..(k - 1) : j <= Len(a) /\ a[j] = b[j]
        /\ \/ k > Len(a)
           \/ k <= Len(a) /\ a[k] < b[k]

RECURSIVE LastInRange(_, _, _, _)
\* SELECT invoice_number ... WHERE invoice_number LIKE 'prefix%' ORDER BY
\* invoice_number DESC LIMIT 1, over rows lo..hi: the greatest number with the
\* prefix in the text order of the column, as <<number>>, or <<>> when no row
\* has the prefix
LastInRange(invoices, prefix, lo, hi) ==
    IF lo > hi THEN <<>>
    ELSE IF lo = hi
    THEN IF invoices[lo].invoice_number.prefix = prefix
         THEN <<invoices[lo].invoice_number>>
         ELSE <<>>
    ELSE LET mid == (lo + hi) \div 2
             a == LastInRange(invoices, prefix, lo, mid)
             b == LastInRange(invoices, prefix, mid + 1, hi)
         IN  IF a = <<>> THEN b
             ELSE IF b = <<>> THEN a
             ELSE IF TextLess(a[1].digits, b[1].digits) THEN b ELSE a

\* Variant: the query takes the newest row whatever its prefix.
LastInvoiceAnyPrefix(invoices, prefix) ==
    IF invoices = <<>> THEN <<>> ELSE <<invoices[Len(invoices)].invoice_number>>

\* .first() of that query
LastInvoice(invoices, prefix) == LastInRange(invoices, prefix, 1, Len(invoices))

\* generate_invoice_number(): reads the clock and the committed invoices
generate_invoice_number(now, invoices) ==
    LET last_invoice == LastInvoice(invoices, Prefix(now))
        new_seq == IF last_invoice # <<>>
                   THEN ParseInt(last_invoice[1].digits) + 1
                   ELSE 1
    IN  [prefix |-> Prefix(now), digits |-> Format03d(new_seq)]

(***************************************************************************)
(* Tables.  A table is the sequence of its rows; a row's id is its index   *)
(* (INTEGER PRIMARY KEY, no row is ever deleted).                          *)
(***************************************************************************)
EmptyDb == [clients |-> <<>>, items |-> <<>>, invoices |-> <<>>, invoice_items |-> <<>>]

\* Variant: Invoice.invoice_number declared without unique=True.
UniqueViolationNamesOnly(table, column, value) ==
    /\ column # "invoice_number"
    /\ \E i \in 1..Len(table) : table[i][column] = value

\* unique=True on Client.name, Item.description, Invoice.invoice_number:
\* the column's default (exact, case-sensitive) comparison
UniqueViolation(table, column, value) ==
    \E i \in 1..Len(table) : table[i][column] = value

\* Model.query.filter(func.lower(column) == func.lower(value)).first():
\* the id of the first matching row, 0 when there is none
FirstLowerMatch(table, column, value) ==
    LET hits == {i \in 1..Len(table) : Lower(table[i][column]) = Lower(value)}
    IN  IF hits = {} THEN 0 ELSE CHOOSE i \in hits : \A j \in hits : i <= j

\* an UPDATE of the columns in `set`
UpdateRow(row, set) ==
    [k \in DOMAIN row |-> IF k \in DOMAIN set THEN set[k] ELSE row[k]]

(***************************************************************************)
(* Session.                                                                *)
(***************************************************************************)
NoData == <<>>
NoPending == [client |-> <<>>, invoice |-> <<>>]
NoCur == [idx |-> 0]
NoResp == [status |-> 0]
NoRequest == [route |-> "", request |-> NoData, response |-> NoResp]

ClientColumns == {"address", "mobile", "email", "alt_mobile"}

\* Variant: an absent field is read as '' and overwrites the stored value.
ClientChangesBlankAbsent(client, client_data) ==
    LET assigned == [k \in ClientColumns |-> Get(client_data, k, "")]
    IN  [k \in {c \in ClientColumns : assigned[c] # client[c]} |-> assigned[k]]

\* create_invoice, client found: the assignments of lines 166-169.  The unit
\* of work then UPDATEs the columns whose value differs from the loaded row.
ClientChanges(client, client_data) ==
    LET assigned == [k \in ClientColumns |-> Get(client_data, k, client[k])]
    IN  [k \in {c \in ClientColumns : assigned[c] # client[c]} |-> assigned[k]]

\* create_invoice, client not found: Client(...) of lines 172-178
NewClient(client_name, client_data) ==
    [name |-> client_name,
     address |-> Get(client_data, "address", ""),
     mobile |-> Get(client_data, "mobile", ""),
     email |-> Get(client_data, "email", ""),
     alt_mobile |-> Get(client_data, "alt_mobile", "")]

\* datetime.strptime(text, '%Y-%m-%d'): <<>> stands for ValueError
strptime(text) ==
    CASE text = "2024-03-05" -> <<[year |-> 2024, month |-> 3, day |-> 5]>>
      [] text = "2024-04-01" -> <<[year |-> 2024, month |-> 4, day |-> 1]>>
      [] OTHER -> <<>>

\* Invoice(...) of lines 182-189, before its client_id is known
NewInvoice(number, data) ==
    [invoice_number |-> number,
     date |-> strptime(data.date)[1],
     subtotal |-> data.subtotal,
     transport |-> Get(data, "transport", 0),
     total |-> data.total]

\* The flush of the pending client and invoice into the image `base`:
\* INSERT/UPDATE client, then INSERT invoice.  ok = FALSE is IntegrityError.
Flush(base, pend) ==
    LET c == pend.client
        insert == c # <<>> /\ c[1].op = "insert"
        update == c # <<>> /\ c[1].op = "update"
        dupName == insert /\ UniqueViolation(base.clients, "name", c[1].row.name)
        clients1 == IF insert THEN Append(base.clients, c[1].row)
                    ELSE IF update
                         THEN [base.clients EXCEPT ![c[1].id] = UpdateRow(@, c[1].set)]
                         ELSE base.clients
        client_id == IF insert THEN Len(clients1) ELSE IF update THEN c[1].id ELSE 0
        inv == pend.invoice
        dupNumber == inv # <<>> /\ UniqueViolation(base.invoices, "invoice_number",
                                                   inv[1].invoice_number)
        invoices1 == IF inv = <<>> THEN base.invoices
                     ELSE Append(base.invoices,
                                 [invoice_number |-> inv[1].invoice_number,
                                  date |-> inv[1].date,
                                  client_id |-> client_id,
                                  subtotal |-> inv[1].subtotal,
                                  transport |-> inv[1].transport,
                                  total |-> inv[1].total])
    IN  [ok |-> ~dupName /\ ~dupNumber,
         db |-> [base EXCEPT !.clients = clients1, !.invoices = invoices1]]

\* Variant: the except branch commits what was flushed instead of rolling back.
rollbackKeepsImage(committed, image) == image

\* db.session.rollback(): the committed database stays as it is
rollback(committed, image) == committed

\* db.session.commit(): the image becomes the committed database
commit(committed, image) == image

\* Variant: an existing item's last_rate is only ever raised.
UpsertItemKeepsHigher(items, item_description, item_data) ==
    LET master_item == FirstLowerMatch(items, "description", item_description)
    IN  IF master_item = 0
        THEN Append(items, [description |-> item_description,
                            hsn_code |-> Get(item_data, "hsn_code", NULL),
                            unit |-> Get(item_data, "unit", NULL),
                            last_rate |-> item_data.rate])
        ELSE IF items[master_item].last_rate < item_data.rate
        THEN [items EXCEPT ![master_item].last_rate = item_data.rate]
        ELSE items

\* Master item of lines 199-210: INSERT when no row matches, else UPDATE last_rate
UpsertItem(items, item_description, item_data) ==
    LET master_item == FirstLowerMatch(items, "description", item_description)
    IN  IF master_item = 0
        THEN Append(items, [description |-> item_description,
                            hsn_code |-> Get(item_data, "hsn_code", NULL),
                            unit |-> Get(item_data, "unit", NULL),
                            last_rate |-> item_data.rate])
        ELSE [items EXCEPT ![master_item].last_rate = item_data.rate]

\* InvoiceItem(...) of lines 213-221
NewInvoiceItem(invoice_id, item_description, item_data) ==
    [invoice_id |-> invoice_id,
     description |-> item_description,
     hsn_code |-> Get(item_data, "hsn_code", ""),
     quantity |-> item_data.quantity,
     unit |-> Get(item_data, "unit", "Nos"),
     rate |-> item_data.rate,
     amount |-> item_data.amount]

\* db.session.add(master_item), lines 199-210, on the transaction image
StageItem(image, item_description, item_data) ==
    [image EXCEPT !.items = UpsertItem(@, item_description, item_data)]

\* Variant: lines are live views of the catalog item, so a new rate shows on
\* the earlier lines of the same description.
StageLineLive(image, invoice_id, item_description, item_data) ==
    [image EXCEPT !.invoice_items =
        Append([j \in 1..Len(@) |->
                  IF Lower(@[j].description) = Lower(item_description)
                  THEN [@[j] EXCEPT !.rate = item_data.rate]
                  ELSE @[j]],
               NewInvoiceItem(invoice_id, item_description, item_data))]

\* db.session.add(inv_item), lines 213-222, on the transaction image: the
\* line is a new row holding copies of the values
StageLine(image, invoice_id, item_description, item_data) ==
    [image EXCEPT !.invoice_items =
        Append(@, NewInvoiceItem(invoice_id, item_description, item_data))]

(***************************************************************************)
(* Bulk import (import_data).                                              *)
(***************************************************************************)
\* Client(...) of lines 297-303 from one spreadsheet row
ClientFromRow(name, row) ==
    [name |-> name,
     address |-> Get(row, "Address", ""),
     mobile |-> Get(row, "Mobile", ""),
     email |-> Get(row, "Email", ""),
     alt_mobile |-> Get(row, "Alt Mobile", "")]

\* Item(...) of lines 314-319 from one spreadsheet row
ItemFromRow(description, row) ==
    [description |-> description,
     hsn_code |-> Get(row, "HSN Code", ""),
     unit |-> Get(row, "Unit", "Nos"),
     last_rate |-> Get(row, "Last Rate", 0)]

RECURSIVE new_clients(_, _)
\* the loop of lines 294-304: rows to insert, given the keys already seen
new_clients(rows, existing_clients) ==
    IF rows = <<>> THEN <<>>
    ELSE LET name == Strip(Get(Head(rows), "Name", <<>>))
         IN  IF name # <<>> /\ Lower(name) \notin existing_clients
             THEN <<ClientFromRow(name, Head(rows))>>
                  \o new_clients(Tail(rows), existing_clients \cup {Lower(name)})
             ELSE new_clients(Tail(rows), existing_clients)

RECURSIVE new_itemsEveryRow(_, _)
\* Variant: a staged row's key is not added to the set of keys seen.
new_itemsEveryRow(rows, existing_items) ==
    IF rows = <<>> THEN <<>>
    ELSE LET description == Strip(Get(Head(rows), "Description", <<>>))
         IN  IF description # <<>> /\ Lower(description) \notin existing_items
             THEN <<ItemFromRow(description, Head(rows))>>
                  \o new_itemsEveryRow(Tail(rows), existing_items)
             ELSE new_itemsEveryRow(Tail(rows), existing_items)

RECURSIVE new_items(_, _)
\* the loop of lines 311-320
new_items(rows, existing_items) ==
    IF rows = <<>> THEN <<>>
    ELSE LET description == Strip(Get(Head(rows), "Description", <<>>))
         IN  IF description # <<>> /\ Lower(description) \notin existing_items
             THEN <<ItemFromRow(description, Head(rows))>>
                  \o new_items(Tail(rows), existing_items \cup {Lower(description)})
             ELSE new_items(Tail(rows), existing_items)

\* Variant: the key set is built without .lower().
ExistingKeysExact(table, column) == {table[i][column] : i \in 1..Len(table)}

\* {name.lower() for name, in db.session.query(column)}
ExistingKeys(table, column) == {Lower(table[i][column]) : i \in 1..Len(table)}

RECURSIVE BulkInsertOrIgnore(_, _, _)
\* Variant: a row rejected by the unique column is skipped (INSERT OR IGNORE).
BulkInsertOrIgnore(table, column, rows) ==
    IF rows = <<>> THEN [ok |-> TRUE, table |-> table]
    ELSE IF UniqueViolation(table, column, Head(rows)[column])
         THEN BulkInsertOrIgnore(table, column, Tail(rows))
         ELSE BulkInsertOrIgnore(Append(table, Head(rows)), column, Tail(rows))

RECURSIVE BulkMerge(_, _, _)
\* Variant: a row whose key matches a stored row up to case overwrites it
\* (session.merge by natural key).
BulkMerge(table, column, rows) ==
    IF rows = <<>> THEN [ok |-> TRUE, table |-> table]
    ELSE LET hit == FirstLowerMatch(table, column, Head(rows)[column])
         IN  IF hit = 0
             THEN BulkMerge(Append(table, Head(rows)), column, Tail(rows))
             ELSE BulkMerge([table EXCEPT ![hit] = Head(rows)], column, Tail(rows))

RECURSIVE BulkInsert(_, _, _)
\* db.session.bulk_save_objects(rows): one INSERT per row, each checked
\* against the unique column.  ok = FALSE is IntegrityError.
BulkInsert(table, column, rows) ==
    IF rows = <<>> THEN [ok |-> TRUE, table |-> table]
    ELSE IF UniqueViolation(table, column, Head(rows)[column])
         THEN [ok |-> FALSE, table |-> table]
         ELSE BulkInsert(Append(table, Head(rows)), column, Tail(rows))

(***************************************************************************)
(* Requests the workers receive.                                           *)
(***************************************************************************)
Acme == <<"A", "c", "m", "e">>
Bolt == <<"B", "o", "l", "t">>
Widget == <<"W", "i", "d", "g", "e", "t">>
Gear == <<"G", "e", "a", "r">>

LineWidget ==
    [description |-> Widget, hsn_code |-> "8471", unit |-> "Kg",
     quantity |-> 2, rate |-> 10, amount |-> 20]
LineWidgetLower ==
    [description |-> <<" ", "w", "i", "d", "g", "e", "t">>,
     quantity |-> 1, rate |-> 5, amount |-> 5]
LineGear ==
    [description |-> Gear, unit |-> "Nos", quantity |-> 1, rate |-> 7, amount |-> 7]
LineNoRate == [description |-> Widget, quantity |-> 1, amount |-> 9]
LineBlank == [description |-> <<" ", " ">>]

CreatePayloads ==
    { [client |-> [name |-> Acme, address |-> "Pune", mobile |-> "111"],
       date |-> "2024-03-05", subtotal |-> 20, total |-> 20,
       items |-> <<LineWidget>>],
      [client |-> [name |-> <<" ", "a", "c", "m", "e">>, mobile |-> "222", email |-> "a@x"],
       date |-> "2024-03-05", subtotal |-> 5, transport |-> 1, total |-> 6,
       items |-> <<LineWidgetLower>>],
      [client |-> [name |-> Bolt, address |-> "Goa", mobile |-> "333",
                   email |-> "b@x", alt_mobile |-> "444"],
       date |-> "2024-04-01", subtotal |-> 25, total |-> 25,
       items |-> <<LineWidget, LineBlank, LineWidgetLower>>],
      [client |-> [name |-> Acme],
       date |-> "2024-04-01", subtotal |-> 0, total |-> 0,
       items |-> <<LineBlank>>],
      [client |-> [name |-> Acme, address |-> "Goa"],
       date |-> "2024-03-05", subtotal |-> 36, total |-> 36,
       items |-> <<LineGear, LineWidget, LineNoRate>>],
      [client |-> [name |-> Bolt, mobile |-> "333"],
       date |-> "05/03/2024", subtotal |-> 20, total |-> 20,
       items |-> <<LineWidget>>],
      [client |-> [name |-> Bolt, mobile |-> "333"],
       date |-> "2024-03-05", subtotal |-> 20,
       items |-> <<LineWidget>>],
      [client |-> [name |-> Bolt, mobile |-> "333"],
       date |-> "2024-03-05", subtotal |-> 20, total |-> 20],
      [client |-> [name |-> <<" ">>, mobile |-> "555"],
       date |-> "2024-03-05", subtotal |-> 20, total |-> 20,
       items |-> <<LineWidget>>],
      [date |-> "2024-03-05", subtotal |-> 20, total |-> 20,
       items |-> <<LineWidget>>],
      NoData }

ClientRows ==
    << [Name |-> <<"A", "C", "M", "E">>, Address |-> "Mumbai", Mobile |-> "999",
        Email |-> ""] @@ ("Alt Mobile" :> "888"),
       [Name |-> <<"a", "c", "m", "e", " ">>, Address |-> "", Mobile |-> "", Email |-> ""],
       [Name |-> <<" ">>, Address |-> "Delhi", Mobile |-> "", Email |-> ""] >>

ItemRows ==
    << [Description |-> <<"w", "i", "d", "g", "e", "t">>, Unit |-> "Box"]
         @@ ("HSN Code" :> "9999") @@ ("Last Rate" :> 3),
       [Description |-> Widget] @@ ("Last Rate" :> 4),
       [Description |-> <<>>, Unit |-> "Kg"] >>

Uploads ==
    { [type |-> "clients", file |-> [filename |-> "clients.xlsx", rows |-> ClientRows]],
      [type |-> "clients",
       file |-> [filename |-> "bolt.xlsx",
                 rows |-> <<ClientRows[1],
                            [Name |-> Bolt, Address |-> "Goa", Mobile |-> "",
                             Email |-> ""]>>]],
      [type |-> "items", file |-> [filename |-> "items.xlsx", rows |-> ItemRows]],
      [type |-> "items",
       file |-> [filename |-> "gear.xlsx",
                 rows |-> <<[Description |-> Gear] @@ ("Last Rate" :> 7)>>]],
      [type |-> "invoices", file |-> [filename |-> "clients.xlsx", rows |-> ClientRows]],
      [type |-> "clients", file |-> [filename |-> "clients.csv", rows |-> ClientRows]],
      [type |-> "clients", file |-> [filename |-> "", rows |-> <<>>]],
      [type |-> "clients"] }

\* file.filename.endswith('.xlsx')
EndsWithXlsx(filename) == filename \in {"clients.xlsx", "items.xlsx", "bolt.xlsx", "gear.xlsx"}

(***************************************************************************)
(* Responses.                                                              *)
(***************************************************************************)
Created(invoice_id) == [status |-> 200, success |-> TRUE, invoice_id |-> invoice_id]
BadRequest(error) == [status |-> 400, success |-> FALSE, error |-> error]
\* Variant: no IntegrityError branch, the generic handler answers.
ConflictAsServerError ==
    [status |-> 500, success |-> FALSE, error |-> "An unexpected error occurred: ",
     e |-> "UNIQUE constraint failed"]

Conflict ==
    [status |-> 409, success |-> FALSE,
     error |-> "A database error occurred. It might be a duplicate entry. Please try again."]
\* e is str(exception): a KeyError's text is the quoted key
ServerError(e) ==
    [status |-> 500, success |-> FALSE, error |-> "An unexpected error occurred: ", e |-> e]
Imported == [status |-> 200, success |-> TRUE]
ImportFailed(error) == [status |-> 200, success |-> FALSE, error |-> error]
Page(invoice_number) == [status |-> 200, invoice_number |-> invoice_number]

(***************************************************************************)
(* State machine.                                                          *)
(***************************************************************************)
Epoch == [yy |-> 24, mm |-> 3]

Init ==
    /\ db = EmptyDb
    /\ today = Epoch
    /\ lock = NoWorker
    /\ pc = [p \in Procs |-> "idle"]
    /\ req = [p \in Procs |-> NoData]
    /\ pending = [p \in Procs |-> NoPending]
    /\ work = [p \in Procs |-> EmptyDb]
    /\ cur = [p \in Procs |-> NoCur]
    /\ resp = [p \in Procs |-> NoResp]
    /\ budget = MaxRequests
    /\ last = NoRequest

\* The handler of worker p returns response r: the request's session is
\* removed and the write lock, if p holds it, is released.
Return(p, route, request, r) ==
    /\ last' = [route |-> route, request |-> request, response |-> r]
    /\ pc' = [pc EXCEPT ![p] = "idle"]
    /\ req' = [req EXCEPT ![p] = NoData]
    /\ pending' = [pending EXCEPT ![p] = NoPending]
    /\ work' = [work EXCEPT ![p] = EmptyDb]
    /\ cur' = [cur EXCEPT ![p] = NoCur]
    /\ resp' = [resp EXCEPT ![p] = r]
    /\ lock' = IF lock = p THEN NoWorker ELSE lock

\* An except branch: db.session.rollback() on the transaction image, then return.
Abort(p, route, r, image) ==
    /\ db' = rollback(db, image)
    /\ Return(p, route, req[p], r)

\* The database image worker p reads and writes: its own open transaction's,
\* else the committed database.
Image(p) == IF lock = p THEN work[p] ELSE db

\* datetime.now() passes into the next month.
Tick ==
    /\ (today.yy - Epoch.yy) * 12 + (today.mm - Epoch.mm) < MaxTicks
    /\ today' = IF today.mm = 12 THEN [yy |-> today.yy + 1, mm |-> 1]
                ELSE [today EXCEPT !.mm = @ + 1]
    /\ UNCHANGED <<db, lock, pc, req, pending, work, cur, resp, budget, last>>

\* Variant: the preview reserves its number by persisting a placeholder invoice.
homeReserves(p) ==
    /\ pc[p] = "idle"
    /\ budget > 0
    /\ budget' = budget - 1
    /\ LET page == Page(generate_invoice_number(today, db.invoices))
       IN  /\ resp' = [resp EXCEPT ![p] = page]
           /\ last' = [route |-> "home", request |-> NoData, response |-> page]
           /\ db' = [db EXCEPT !.invoices =
                       Append(@, [invoice_number |-> page.invoice_number,
                                  date |-> strptime("2024-03-05")[1],
                                  client_id |-> 0,
                                  subtotal |-> 0, transport |-> 0, total |-> 0])]
    /\ UNCHANGED <<today, lock, pc, req, pending, work, cur>>

\* GET /: the page shows generate_invoice_number().
home(p) ==
    /\ pc[p] = "idle"
    /\ budget > 0
    /\ budget' = budget - 1
    /\ LET page == Page(generate_invoice_number(today, db.invoices))
       IN  /\ resp' = [resp EXCEPT ![p] = page]
           /\ last' = [route |-> "home", request |-> NoData, response |-> page]
    /\ UNCHANGED <<db, today, lock, pc, req, pending, work, cur>>

\* POST /create_invoice, lines 151-179: the payload arrives; the client is
\* looked up and updated or created in the session.
create_invoice_client(p) ==
    /\ pc[p] = "idle"
    /\ budget > 0
    /\ budget' = budget - 1
    /\ UNCHANGED <<db, today>>
    /\ \E data \in CreatePayloads :
         IF data = NoData
         THEN Return(p, "create_invoice", data, BadRequest("Invalid data received"))
         ELSE IF "client" \notin DOMAIN data
         THEN Return(p, "create_invoice", data, ServerError("'client'"))
         ELSE LET client_data == data.client
                  client_name == Strip(Get(client_data, "name", <<>>))
                  client == FirstLowerMatch(db.clients, "name", client_name)
              IN  IF client_name = <<>>
                  THEN Return(p, "create_invoice", data,
                              BadRequest("Client name cannot be empty"))
                  ELSE /\ pc' = [pc EXCEPT ![p] = "number"]
                       /\ req' = [req EXCEPT ![p] = data]
                       /\ pending' = [pending EXCEPT ![p] =
                            [client |-> << IF client = 0
                                           THEN [op |-> "insert",
                                                 row |-> NewClient(client_name, client_data)]
                                           ELSE [op |-> "update", id |-> client,
                                                 set |-> ClientChanges(db.clients[client],
                                                                       client_data)] >>,
                             invoice |-> <<>>]]
                       /\ UNCHANGED <<lock, work, cur, resp, last>>

\* Lines 182-193: the number is generated from the committed invoices, the
\* Invoice is built and added, and the loop over data['items'] is entered.
create_invoice_number(p) ==
    /\ pc[p] = "number"
    /\ UNCHANGED <<today, budget>>
    /\ LET data == req[p]
           number == generate_invoice_number(today, db.invoices)
       IN  IF "date" \notin DOMAIN data
           THEN Abort(p, "create_invoice", ServerError("'date'"), Image(p))
           ELSE IF strptime(data.date) = <<>>
           THEN Abort(p, "create_invoice", ServerError("time data does not match format"),
                      Image(p))
           ELSE IF "subtotal" \notin DOMAIN data
           THEN Abort(p, "create_invoice", ServerError("'subtotal'"), Image(p))
           ELSE IF "total" \notin DOMAIN data
           THEN Abort(p, "create_invoice", ServerError("'total'"), Image(p))
           ELSE IF "items" \notin DOMAIN data
           THEN Abort(p, "create_invoice", ServerError("'items'"), Image(p))
           ELSE /\ pc' = [pc EXCEPT ![p] = "items"]
                /\ pending' = [pending EXCEPT ![p].invoice = <<NewInvoice(number, data)>>]
                /\ cur' = [cur EXCEPT ![p] = [idx |-> 1, invoice_number |-> number]]
                /\ UNCHANGED <<db, lock, req, work, resp, last>>

\* Lines 193-222, one pass of the loop.  The Item query autoflushes the
\* session, which opens the write transaction on the first pass that has a
\* description.
create_invoice_item(p) ==
    /\ pc[p] = "items"
    /\ cur[p].idx <= Len(req[p].items)
    /\ UNCHANGED <<today, budget>>
    /\ LET item_data == req[p].items[cur[p].idx]
           item_description == Strip(Get(item_data, "description", <<>>))
       IN  IF item_description = <<>>
           THEN /\ cur' = [cur EXCEPT ![p].idx = @ + 1]
                /\ UNCHANGED <<db, lock, pc, req, pending, work, resp, last>>
           ELSE /\ lock \in {NoWorker, p}
                /\ LET fl == Flush(Image(p), pending[p])
                       invoice_id == Len(fl.db.invoices)
                   IN  IF ~fl.ok
                       THEN Abort(p, "create_invoice", Conflict, fl.db)
                       ELSE IF "rate" \notin DOMAIN item_data
                       THEN Abort(p, "create_invoice", ServerError("'rate'"), fl.db)
                       ELSE IF "quantity" \notin DOMAIN item_data
                       THEN Abort(p, "create_invoice", ServerError("'quantity'"),
                                  StageItem(fl.db, item_description, item_data))
                       ELSE IF "amount" \notin DOMAIN item_data
                       THEN Abort(p, "create_invoice", ServerError("'amount'"),
                                  StageItem(fl.db, item_description, item_data))
                       ELSE /\ work' = [work EXCEPT ![p] =
                                 StageLine(StageItem(fl.db, item_description, item_data),
                                           invoice_id, item_description, item_data)]
                            /\ lock' = p
                            /\ pending' = [pending EXCEPT ![p] = NoPending]
                            /\ cur' = [cur EXCEPT ![p].idx = @ + 1]
                            /\ UNCHANGED <<db, pc, req, resp, last>>

\* Lines 227-236: db.session.commit() after the loop (it flushes what is
\* still pending), or the IntegrityError branch.
create_invoice_commit(p) ==
    /\ pc[p] = "items"
    /\ cur[p].idx > Len(req[p].items)
    /\ lock \in {NoWorker, p}
    /\ UNCHANGED <<today, budget>>
    /\ LET fl == Flush(Image(p), pending[p])
       IN  IF ~fl.ok
           THEN Abort(p, "create_invoice", Conflict, fl.db)
           ELSE /\ db' = commit(db, fl.db)
                /\ Return(p, "create_invoice", req[p], Created(Len(fl.db.invoices)))

\* POST /import_data, lines 277-292 / 309: the upload is checked and read,
\* and the set of existing keys is queried.
import_data_read(p) ==
    /\ pc[p] = "idle"
    /\ budget > 0
    /\ budget' = budget - 1
    /\ UNCHANGED <<db, today>>
    /\ \E upload \in Uploads :
         IF "file" \notin DOMAIN upload
         THEN Return(p, "import_data", upload, ImportFailed("No file part"))
         ELSE IF upload.file.filename = ""
         THEN Return(p, "import_data", upload, ImportFailed("No selected file"))
         ELSE IF ~EndsWithXlsx(upload.file.filename)
         THEN Return(p, "import_data", upload,
                     ImportFailed("Invalid file format. Please upload an Excel (.xlsx) file"))
         ELSE /\ pc' = [pc EXCEPT ![p] = "import"]
              /\ req' = [req EXCEPT ![p] = upload]
              /\ cur' = [cur EXCEPT ![p] =
                    [idx |-> 0,
                     existing |-> IF upload.type = "clients"
                                  THEN ExistingKeys(db.clients, "name")
                                  ELSE IF upload.type = "items"
                                  THEN ExistingKeys(db.items, "description")
                                  ELSE {}]]
              /\ UNCHANGED <<lock, pending, work, resp, last>>

\* Lines 293-329: the rows are filtered against the key set, the new ones
\* are inserted in bulk and committed; any exception rolls back.
import_data_commit(p) ==
    /\ pc[p] = "import"
    /\ UNCHANGED <<today, budget>>
    /\ LET data_type == req[p].type
           rows == req[p].file.rows
           table == IF data_type = "clients" THEN "clients" ELSE "items"
           column == IF data_type = "clients" THEN "name" ELSE "description"
           new == IF data_type = "clients" THEN new_clients(rows, cur[p].existing)
                  ELSE IF data_type = "items" THEN new_items(rows, cur[p].existing)
                  ELSE <<>>
           saved == BulkInsert(db[table], column, new)
       IN  /\ new # <<>> => lock = NoWorker
           /\ IF ~saved.ok
              THEN Abort(p, "import_data", ImportFailed("Error processing file"),
                         [db EXCEPT ![table] = saved.table])
              ELSE /\ db' = commit(db, [db EXCEPT ![table] = saved.table])
                   /\ Return(p, "import_data", req[p], Imported)

\* One step of worker p's request handling.
Handler(p) ==
    \/ home(p)
    \/ create_invoice_client(p)
    \/ create_invoice_number(p)
    \/ create_invoice_item(p)
    \/ create_invoice_commit(p)
    \/ import_data_read(p)
    \/ import_data_commit(p)

\* Concurrent workers over an initially empty database.
Next == Tick \/ \E p \in Procs : Handler(p)

Spec == Init /\ [][Next]_vars

(***************************************************************************)
(* Sequential use: one worker, so that a request starts only after the     *)
(* previous one has returned.  The database starts empty or with the       *)
(* history of SeedSize earlier invoices of the current month, each made by *)
(* the payload "client Acme, one blank line".                              *)
(***************************************************************************)
SeedSizes == {0, 999}

SeededDb(k) ==
    [clients |-> IF k = 0 THEN <<>> ELSE <<NewClient(Acme, [name |-> Acme])>>,
     items |-> <<>>,
     invoices |-> [i \in 1..k |->
                     [invoice_number |-> [prefix |-> Prefix(Epoch), digits |-> Format03d(i)],
                      date |-> strptime("2024-04-01")[1],
                      client_id |-> 1,
                      subtotal |-> 0, transport |-> 0, total |-> 0]],
     invoice_items |-> <<>>]

InitSeq ==
    /\ db \in {SeededDb(k) : k \in SeedSizes}
    /\ today = Epoch
    /\ lock = NoWorker
    /\ pc = [p \in Procs |-> "idle"]
    /\ req = [p \in Procs |-> NoData]
    /\ pending = [p \in Procs |-> NoPending]
    /\ work = [p \in Procs |-> EmptyDb]
    /\ cur = [p \in Procs |-> NoCur]
    /\ resp = [p \in Procs |-> NoResp]
    /\ budget = IF db = EmptyDb THEN MaxSeqRequests ELSE MaxRollRequests
    /\ last = NoRequest

NextSeq == Tick \/ Handler("w1")

SpecSeq == InitSeq /\ [][NextSeq]_vars

(***************************************************************************)
(* Properties.                                                             *)
(***************************************************************************)
InvoiceNumbersDistinct(d) ==
    \A i, j \in 1..Len(d.invoices) :
        d.invoices[i].invoice_number = d.invoices[j].invoice_number => i = j

\* C1: under any interleaving of concurrent create_invoice submissions, in
\* every state no two persisted invoices carry the same invoice_number, and
\* every persisted invoice keeps its number for good (no row is removed or
\* renumbered), so a number once persisted never belongs to another invoice.
C1_NumberNeverReused ==
    [][ /\ InvoiceNumbersDistinct(db')
        /\ Len(db'.invoices) >= Len(db.invoices)
        /\ \A i \in 1..Len(db.invoices) :
               db'.invoices[i].invoice_number = db.invoices[i].invoice_number ]_vars

\* Two workers raced for the first number: one invoice is persisted, the
\* other worker (its client differs, so only the number can collide) got 409.
C1_Witness ==
    /\ Len(db.invoices) = 1
    /\ db.clients[db.invoices[1].client_id].name = Acme
    /\ last.route = "create_invoice"
    /\ last.response.status = 409
    /\ last.request.client.name = Bolt

\* A step in which worker p's handler ends without success, or does not end.
NoSuccessStep(p) ==
    /\ \/ pc'[p] # pc[p]
       \/ cur'[p] # cur[p]
       \/ budget' # budget /\ resp'[p] = last'.response
    /\ ~(pc'[p] = "idle" /\ resp'[p].status = 200 /\ "success" \in DOMAIN resp'[p]
         /\ resp'[p].success)

\* C2: create_invoice is all-or-nothing: every step of a handler other than
\* its successful return, in particular every failing return (missing rate on
\* a later line, unparseable date, rejected commit), leaves the committed
\* Client, Item, Invoice and InvoiceItem tables exactly as they were.
C2_FailureLeavesTables ==
    [][ \A p \in Procs : NoSuccessStep(p) => db' = db ]_vars

\* A submission failed on its third line (no rate) after it had flushed an
\* update of the existing client, two items and the invoice: the client
\* still has the address stored by the earlier submission.
C2_Witness ==
    /\ last.route = "create_invoice"
    /\ last.response = ServerError("'rate'")
    /\ Len(db.clients) = 1
    /\ db.clients[1].address = "Pune"
    /\ Len(db.items) = 1
    /\ Len(db.invoices) = 1

\* C3: in every reachable state no two persisted clients have names equal
\* after case-folding, and no two persisted items have descriptions equal
\* after case-folding.
C3_CaseFoldUnique ==
    /\ \A i, j \in 1..Len(db.clients) :
           Lower(db.clients[i].name) = Lower(db.clients[j].name) => i = j
    /\ \A i, j \in 1..Len(db.items) :
           Lower(db.items[i].description) = Lower(db.items[j].description) => i = j

\* C4: the number allocated for a submission has a numeric suffix greater
\* than every suffix already persisted under its month prefix, also past
\* suffix 999.
C4_AllocationIncreases ==
    [][ \A p \in Procs :
          pc[p] = "number" /\ pc'[p] = "items" =>
            \A i \in 1..Len(db.invoices) :
               db.invoices[i].invoice_number.prefix = cur'[p].invoice_number.prefix =>
                 ParseInt(db.invoices[i].invoice_number.digits)
                   < ParseInt(cur'[p].invoice_number.digits) ]_vars

\* C5: when a worker has built its invoice with a number that another
\* submission has committed in the meantime (both read the same last number),
\* its write is rejected: the handler returns status 409 with success false,
\* starts no new attempt, keeps nothing staged and holds no lock, and the
\* committed tables are unchanged; numbers stay distinct, so at most one of
\* the two commits.
C5_LoserGetsConflict ==
    [][ /\ InvoiceNumbersDistinct(db')
        /\ \A q \in Procs :
             ( /\ pc[q] = "items"
               /\ pending[q].invoice # <<>>
               /\ pending'[q] # pending[q]
               /\ UniqueViolation(db.invoices, "invoice_number", cur[q].invoice_number) )
             => /\ resp'[q].status = 409
                /\ resp'[q].success = FALSE
                /\ pc'[q] = "idle"
                /\ pending'[q] = NoPending
                /\ lock' # q
                /\ budget' = budget
                /\ db' = db ]_vars

\* Worker q still holds a number that the other worker has just committed.
C5_Witness ==
    \E q \in Procs :
        /\ pc[q] = "items"
        /\ pending[q].invoice # <<>>
        /\ pending[q].client[1].op = "insert"
        /\ ~UniqueViolation(db.clients, "name", pending[q].client[1].row.name)
        /\ UniqueViolation(db.invoices, "invoice_number", cur[q].invoice_number)
        /\ last.response = Created(1)

RECURSIVE MaxSuffix(_, _, _, _)
\* The greatest numeric suffix among rows lo..hi with the prefix, 0 when none.
MaxSuffix(invoices, prefix, lo, hi) ==
    IF lo > hi THEN 0
    ELSE IF lo = hi
    THEN IF invoices[lo].invoice_number.prefix = prefix
         THEN ParseInt(invoices[lo].invoice_number.digits)
         ELSE 0
    ELSE LET mid == (lo + hi) \div 2
             a == MaxSuffix(invoices, prefix, lo, mid)
             b == MaxSuffix(invoices, prefix, mid + 1, hi)
         IN  IF a < b THEN b ELSE a

\* A step in which worker p's create_invoice commits.
CreateCommitted(p) ==
    /\ pc[p] = "items"
    /\ pc'[p] = "idle"
    /\ resp'[p].status = 200

\* C6: allocation is scoped by the year+month prefix.  A number is built
\* with the prefix of the current month; a submission that commits adds one
\* invoice whose suffix is 001 when no persisted invoice has its prefix, and
\* otherwise the highest persisted suffix of that prefix plus 1, zero-padded
\* to three digits; invoices of other prefixes play no part.
C6_MonthScopedSequence ==
    [][ /\ \A p \in Procs :
             pc[p] = "number" /\ pc'[p] = "items" =>
               cur'[p].invoice_number.prefix = Prefix(today)
        /\ \A p \in Procs :
             CreateCommitted(p) =>
               LET n == db'.invoices[Len(db'.invoices)].invoice_number
               IN  /\ Len(db'.invoices) = Len(db.invoices) + 1
                   /\ n = cur[p].invoice_number
                   /\ n.digits = Format03d(MaxSuffix(db.invoices, n.prefix,
                                                     1, Len(db.invoices)) + 1) ]_vars

\* Two invoices of March 2024 and then the first of April 2024.
C6_Witness ==
    /\ Len(db.invoices) = 3
    /\ db.invoices[1].invoice_number = [prefix |-> <<24, "MR">>, digits |-> <<0, 0, 1>>]
    /\ db.invoices[2].invoice_number = [prefix |-> <<24, "MR">>, digits |-> <<0, 0, 2>>]
    /\ db.invoices[3].invoice_number = [prefix |-> <<24, "AP">>, digits |-> <<0, 0, 1>>]

\* Ids of the clients whose name equals `name` after case-folding.
ClientsNamed(d, name) ==
    {i \in 1..Len(d.clients) : Lower(d.clients[i].name) = Lower(name)}

\* C7: when a submission commits, run after the previous one has returned,
\* exactly one client has its trimmed name up to case; if that client existed
\* before, it keeps the name first stored, and each of address, mobile, email
\* and alt_mobile equals the submission's value when the submission has the
\* field and the stored value otherwise; the new invoice refers to it.
C7_ClientMerged ==
    [][ \A p \in Procs :
          CreateCommitted(p) =>
            LET client_data == req[p].client
                name == Strip(client_data.name)
                before == ClientsNamed(db, name)
                after == ClientsNamed(db', name)
            IN  /\ Cardinality(after) = 1
                /\ db'.invoices[Len(db'.invoices)].client_id \in after
                /\ \A i \in before :
                     /\ db'.clients[i].name = db.clients[i].name
                     /\ \A k \in ClientColumns :
                          db'.clients[i][k] = IF k \in DOMAIN client_data
                                              THEN client_data[k]
                                              ELSE db.clients[i][k] ]_vars

\* "Acme" (address Pune, mobile 111) was followed by " acme" (mobile 222,
\* email a@x, no address): one client, named Acme, address kept.
C7_Witness ==
    /\ Len(db.invoices) = 2
    /\ db.clients = << [name |-> Acme, address |-> "Pune", mobile |-> "222",
                        email |-> "a@x", alt_mobile |-> ""] >>
    /\ db.invoices[2].client_id = 1

\* C8: when a submission commits, for every line with a description the
\* catalog holds an item of that description (up to case) whose last_rate is
\* the rate of the submission's last line of that description, whatever rate
\* was stored before.
C8_LastRateIsLatest ==
    [][ \A p \in Procs :
          CreateCommitted(p) =>
            LET lines == req[p].items
                key(j) == Lower(Strip(Get(lines[j], "description", <<>>)))
            IN  \A j \in 1..Len(lines) :
                  key(j) # <<>> =>
                    LET same == {k \in 1..Len(lines) : key(k) = key(j)}
                        latest == CHOOSE k \in same : \A m \in same : m <= k
                        item == FirstLowerMatch(db'.items, "description", key(j))
                    IN  /\ item # 0
                        /\ db'.items[item].last_rate = lines[latest].rate ]_vars

\* Widget was billed at 10 and then, as " widget", at 5: last_rate went down.
C8_Witness ==
    /\ Len(db.invoices) = 2
    /\ Len(db.items) = 1
    /\ db.invoice_items[1].rate = 10
    /\ db.invoice_items[Len(db.invoice_items)].invoice_id = 2
    /\ db.invoice_items[Len(db.invoice_items)].rate = 5
    /\ db.items[1].last_rate = 5

\* C9: a committed invoice and its lines never change: every step leaves
\* each persisted Invoice row and each persisted InvoiceItem row as it is,
\* and lines added later belong to invoices added later.
C9_InvoicesImmutable ==
    [][ /\ Len(db'.invoices) >= Len(db.invoices)
        /\ \A i \in 1..Len(db.invoices) : db'.invoices[i] = db.invoices[i]
        /\ Len(db'.invoice_items) >= Len(db.invoice_items)
        /\ \A j \in 1..Len(db.invoice_items) : db'.invoice_items[j] = db.invoice_items[j]
        /\ \A j \in (Len(db.invoice_items) + 1)..Len(db'.invoice_items) :
               db'.invoice_items[j].invoice_id > Len(db.invoices) ]_vars

\* A later submission of a concurrent worker changed the catalog rate and the
\* client's mobile; the first invoice's line still shows the rate it was
\* billed at.
C9_Witness ==
    /\ Len(db.invoices) = 2
    /\ Len(db.invoice_items) = 2
    /\ Len(db.items) = 1
    /\ db.invoice_items[1].invoice_id = 1
    /\ db.invoice_items[1].rate = 10
    /\ db.items[FirstLowerMatch(db.items, "description", Widget)].last_rate = 5
    /\ db.clients[db.invoices[1].client_id].mobile = "222"

\* C10: an import that runs right after a successful import of the same
\* upload succeeds, inserts nothing and leaves the tables unchanged.
C10_ImportIdempotent ==
    [][ \A p \in Procs :
          ( /\ pc[p] = "import"
            /\ pc'[p] = "idle"
            /\ last.route = "import_data"
            /\ last.response = Imported
            /\ last.request = req[p] )
          => /\ resp'[p].success
             /\ db' = db ]_vars

\* The second run of the client upload has read the keys the first run
\* inserted and finds no row to insert.
C10_Witness ==
    \E p \in Procs :
        /\ pc[p] = "import"
        /\ last.route = "import_data"
        /\ last.response = Imported
        /\ last.request = req[p]
        /\ req[p].file.rows = ClientRows
        /\ Len(db.clients) = 1
        /\ db.clients[1].name = <<"A", "C", "M", "E">>
        /\ new_clients(req[p].file.rows, cur[p].existing) = <<>>

\* The table, unique column and spreadsheet key column of an import type.
ImportTable(data_type) == IF data_type = "clients" THEN "clients" ELSE "items"
ImportColumn(data_type) == IF data_type = "clients" THEN "name" ELSE "description"
ImportKeyColumn(data_type) == IF data_type = "clients" THEN "Name" ELSE "Description"

\* C11: when an import of clients or items, run after the previous request
\* has returned, ends, it has succeeded and the records it added are exactly
\* one per key (trimmed, case-folded) that is non-empty and was not in the
\* table, each built from the first row of the batch carrying the key; rows
\* with an empty key add nothing.
C11_OnePerNewKey ==
    [][ \A p \in Procs :
          ( pc[p] = "import" /\ pc'[p] = "idle" /\ req[p].type \in {"clients", "items"} ) =>
            LET rows == req[p].file.rows
                column == ImportColumn(req[p].type)
                old == db[ImportTable(req[p].type)]
                new == db'[ImportTable(req[p].type)]
                added == (Len(old) + 1)..Len(new)
                key(j) == Lower(Strip(Get(rows[j], ImportKeyColumn(req[p].type), <<>>)))
                stored == {Lower(old[i][column]) : i \in 1..Len(old)}
                fresh == {j \in 1..Len(rows) :
                            /\ key(j) # <<>>
                            /\ key(j) \notin stored
                            /\ \A m \in 1..(j - 1) : key(m) # key(j)}
            IN  /\ resp'[p].success
                /\ Len(new) >= Len(old)
                /\ Cardinality(added) = Cardinality(fresh)
                /\ \A j \in fresh :
                     \E a \in added :
                        /\ Lower(new[a][column]) = key(j)
                        /\ new[a] = IF req[p].type = "clients"
                                    THEN ClientFromRow(Strip(rows[j].Name), rows[j])
                                    ELSE ItemFromRow(Strip(rows[j].Description), rows[j]) ]_vars

\* The item sheet (rows "widget", "Widget", blank) was imported into a catalog
\* without widgets: one item, built from the first row.
C11_Witness ==
    /\ last.route = "import_data"
    /\ last.response = Imported
    /\ last.request.type = "items"
    /\ last.request.file.rows = ItemRows
    /\ db.items = << [description |-> <<"w", "i", "d", "g", "e", "t">>,
                      hsn_code |-> "9999", unit |-> "Box", last_rate |-> 3] >>

\* C12: import_data is all-or-nothing: the step that ends an import either
\* reports success and appends every record staged from the batch to its
\* table, or reports failure (a key inserted by a concurrent request after
\* the importer read the existing keys is rejected by the unique column) and
\* leaves every table as it was; nothing else changes.
C12_ImportAtomic ==
    [][ \A p \in Procs :
          ( pc[p] = "import" /\ pc'[p] = "idle" ) =>
            LET rows == req[p].file.rows
                staged == IF req[p].type = "clients"
                          THEN new_clients(rows, cur[p].existing)
                          ELSE IF req[p].type = "items"
                          THEN new_items(rows, cur[p].existing)
                          ELSE <<>>
                table == ImportTable(req[p].type)
            IN  \/ /\ resp'[p].success
                   /\ db' = [db EXCEPT ![table] = @ \o staged]
                \/ /\ ~resp'[p].success
                   /\ db' = db ]_vars

\* The two-row client sheet (ACME, Bolt) failed on its second row because a
\* concurrent submission had created Bolt meanwhile: ACME is not persisted.
C12_Witness ==
    /\ last.route = "import_data"
    /\ last.response = ImportFailed("Error processing file")
    /\ last.request.file.filename = "bolt.xlsx"
    /\ Len(db.clients) = 1
    /\ db.clients[1].name = Bolt

\* A step in which a preview (GET /) is answered.
PreviewStep ==
    /\ budget' = budget - 1
    /\ pc' = pc
    /\ last'.route = "home"

\* C13 as stated: the preview changes no persisted state and reserves
\* nothing, and a preview answered right after another preview, with no
\* request answered (so nothing committed) in between, shows the same number.
C13_PreviewRepeatable ==
    [][ PreviewStep =>
          /\ db' = db
          /\ UNCHANGED <<lock, pending, work>>
          /\ last.route = "home" => last'.response = last.response ]_vars

\* C13, amended: the preview changes no persisted state and reserves
\* nothing, and a preview answered right after another preview of the same
\* calendar month, with nothing committed in between, shows the same number.
C13_PreviewReadOnly ==
    [][ PreviewStep =>
          /\ db' = db
          /\ UNCHANGED <<lock, pending, work>>
          /\ ( /\ last.route = "home"
               /\ last.response.invoice_number.prefix
                    = last'.response.invoice_number.prefix )
             => last'.response = last.response ]_vars

\* A worker was shown a number; the other worker's submission then committed
\* under that very number, and the allocator now hands out another one.
C13_Witness ==
    \E p \in Procs :
        /\ "invoice_number" \in DOMAIN resp[p]
        /\ last.route = "create_invoice"
        /\ last.response = Created(1)
        /\ db.invoices[1].invoice_number = resp[p].invoice_number
        /\ generate_invoice_number(today, db.invoices) # resp[p].invoice_number

\* A text that is empty or all whitespace.
Blank(text) == \A i \in 1..Len(text) : text[i] \in Whitespace

\* The lines of a payload that carry a description.
Described(lines) ==
    {j \in 1..Len(lines) : ~Blank(Get(lines[j], "description", <<>>))}

\* A payload with a client that is malformed: the client name is empty after
\* trimming, the items are missing, the date is not YYYY-MM-DD, or a required
\* number is missing in the payload or in a line that has a description.
Malformed(data) ==
    /\ data # NoData
    /\ "client" \in DOMAIN data
    /\ \/ Blank(Get(data.client, "name", <<>>))
       \/ "items" \notin DOMAIN data
       \/ "date" \in DOMAIN data /\ data.date \notin {"2024-03-05", "2024-04-01"}
       \/ {"subtotal", "total"} \ DOMAIN data # {}
       \/ /\ "items" \in DOMAIN data
          /\ \E j \in Described(data.items) :
                {"quantity", "rate", "amount"} \ DOMAIN data.items[j] # {}

\* A step in which a create_invoice handler returns.
CreateReturns ==
    /\ last'.route = "create_invoice"
    /\ \/ budget' # budget /\ pc' = pc
       \/ \E p \in Procs : pc[p] \in {"number", "items"} /\ pc'[p] = "idle"

\* C14: a malformed create_invoice payload is answered with a validation
\* error, an outcome that is neither success nor the unexpected-failure
\* outcome (500) nor the uniqueness-conflict outcome (409), and the tables
\* are left unchanged.
C14_MalformedIsValidationError ==
    [][ ( CreateReturns /\ Malformed(last'.request) ) =>
          /\ last'.response.status \notin {200, 409, 500}
          /\ db' = db ]_vars

\* C15: in the items loop a line whose description is blank is passed over:
\* the handler goes on to the next line and nothing is staged or written,
\* whatever other fields the line lacks.  When the submission commits, the
\* lines it added are those with a description, one invoice line each, in
\* payload order, on the new invoice, and no catalog item is blank.
C15_BlankLinesSkipped ==
    [][ \A p \in Procs :
          /\ ( /\ pc[p] = "items"
               /\ cur[p].idx <= Len(req[p].items)
               /\ cur'[p] # cur[p] \/ pc'[p] # pc[p]
               /\ Blank(Get(req[p].items[cur[p].idx], "description", <<>>)) )
             => /\ pc'[p] = "items"
                /\ cur'[p].idx = cur[p].idx + 1
                /\ UNCHANGED <<db, work, pending, lock>>
          /\ CreateCommitted(p) =>
               LET lines == req[p].items
                   described == Described(lines)
                   rank(j) == Cardinality({i \in described : i <= j})
                   base == Len(db.invoice_items)
               IN  /\ Len(db'.invoice_items) = base + Cardinality(described)
                   /\ \A j \in described :
                        LET line == db'.invoice_items[base + rank(j)]
                        IN  /\ line.invoice_id = Len(db'.invoices)
                            /\ line.description = Strip(lines[j].description)
                            /\ line.quantity = lines[j].quantity
                            /\ line.rate = lines[j].rate
                            /\ line.amount = lines[j].amount
                   /\ \A i \in 1..Len(db'.items) : ~Blank(db'.items[i].description)
                   /\ \A i \in (Len(db.items) + 1)..Len(db'.items) :
                        \E j \in described :
                           Lower(db'.items[i].description)
                             = Lower(Strip(lines[j].description)) ]_vars

\* The submission with the lines Widget, blank (no rate, quantity or amount),
\* " widget" committed: two invoice lines, in that order, one catalog item.
C15_Witness ==
    /\ last.route = "create_invoice"
    /\ last.response = Created(1)
    /\ last.request.items = <<LineWidget, LineBlank, LineWidgetLower>>
    /\ Len(db.invoice_items) = 2
    /\ db.invoice_items[1].description = Widget
    /\ db.invoice_items[1].rate = 10
    /\ db.invoice_items[2].description = <<"w", "i", "d", "g", "e", "t">>
    /\ db.invoice_items[2].rate = 5
    /\ Len(db.items) = 1

\* The first line of a payload that carries the description of line j, up
\* to trimming and case.
FirstOfKey(lines, j) ==
    CHOOSE k \in Described(lines) :
        /\ Lower(Strip(lines[k].description)) = Lower(Strip(lines[j].description))
        /\ \A m \in Described(lines) :
              Lower(Strip(lines[m].description)) = Lower(Strip(lines[j].description))
                => k <= m

\* C16: when a submission commits and a catalog item was created from a line
\* of it that has no unit, the persisted item's unit is the default token
\* "Nos" that the invoice line gets, not an absent value.
C16_NewItemDefaultUnit ==
    [][ \A p \in Procs :
          CreateCommitted(p) =>
            \A j \in Described(req[p].items) :
               LET lines == req[p].items
                   first == lines[FirstOfKey(lines, j)]
                   item == FirstLowerMatch(db'.items, "description",
                                           Strip(lines[j].description))
               IN  ( /\ FirstLowerMatch(db.items, "description",
                                        Strip(lines[j].description)) = 0
                     /\ "unit" \notin DOMAIN first )
                   => /\ item # 0
                      /\ db'.items[item].unit = "Nos" ]_vars

\* C17: when a submission commits and a line of it refers to a catalog item
\* that existed before, the item's HSN code and unit are the stored ones if
\* they were set, and otherwise come from a line of that description that
\* supplies them (they stay missing only if none does); the description is
\* kept.
C17_ExistingItemFilledOnce ==
    [][ \A p \in Procs :
          CreateCommitted(p) =>
            \A j \in Described(req[p].items) :
               LET lines == req[p].items
                   item == FirstLowerMatch(db.items, "description",
                                           Strip(lines[j].description))
               IN  item # 0 =>
                     /\ db'.items[item].description = db.items[item].description
                     /\ \A column \in {"hsn_code", "unit"} :
                          LET supplied ==
                                {lines[k][column] :
                                   k \in {i \in Described(lines) :
                                            /\ column \in DOMAIN lines[i]
                                            /\ Lower(Strip(lines[i].description))
                                                 = Lower(Strip(lines[j].description))}}
                          IN  IF db.items[item][column] # NULL
                              THEN db'.items[item][column] = db.items[item][column]
                              ELSE IF supplied = {}
                              THEN db'.items[item][column] = NULL
                              ELSE db'.items[item][column] \in supplied ]_vars

\* C18: import_data only inserts.  Every step of an import leaves each
\* stored client and each stored item as it is (rows may only be appended)
\* and leaves the invoices and the invoice lines untouched.
C18_ImportOnlyInserts ==
    [][ \A p \in Procs :
          ( pc[p] = "import" /\ pc'[p] = "idle" ) =>
            /\ Len(db'.clients) >= Len(db.clients)
            /\ \A i \in 1..Len(db.clients) : db'.clients[i] = db.clients[i]
            /\ Len(db'.items) >= Len(db.items)
            /\ \A i \in 1..Len(db.items) : db'.items[i] = db.items[i]
            /\ db'.invoices = db.invoices
            /\ db'.invoice_items = db.invoice_items ]_vars

\* The client sheet (ACME, Mumbai, 999) was imported after a submission had
\* stored Acme (Pune, 111): the client is as the submission left it, and the
\* invoice and its line are in place.
C18_Witness ==
    /\ last.route = "import_data"
    /\ last.response = Imported
    /\ last.request.file.rows = ClientRows
    /\ db.clients = << [name |-> Acme, address |-> "Pune", mobile |-> "111",
                        email |-> "", alt_mobile |-> ""] >>
    /\ Len(db.invoices) = 1
    /\ Len(db.invoice_items) = 1

\* A payload that is well formed: a client with a name, a date YYYY-MM-DD,
\* subtotal and total, items, and quantity, rate and amount on every line
\* that has a description.
WellFormed(data) ==
    /\ data # NoData
    /\ {"client", "date", "subtotal", "total", "items"} \subseteq DOMAIN data
    /\ ~Blank(Get(data.client, "name", <<>>))
    /\ data.date \in {"2024-03-05", "2024-04-01"}
    /\ \A j \in Described(data.items) :
          {"quantity", "rate", "amount"} \subseteq DOMAIN data.items[j]

\* C19: a well-formed submission that runs with no other request in flight
\* commits successfully, whatever number of invoices the month already
\* holds, also when a suffix of 999 or more is persisted.
C19_RetryCommits ==
    [][ ( CreateReturns /\ WellFormed(last'.request) ) =>
          /\ last'.response.status = 200
          /\ last'.response.success ]_vars

====
